---- MODULE Spec2Model ----
(***************************************************************************)
(* A model of norms: the report (models.py), the check registry            *)
(* (checks/registry.py), the language detector (detection.py), the         *)
(* shipped check procedures (checks/common.py, checks/python.py) and the   *)
(* orchestrator (verification.py).                                         *)
(*                                                                         *)
(* The audited directory is abstracted by the outcome of every read the    *)
(* checks perform on it: which files exist, whether a structured file      *)
(* parses, and, for each value a check takes out of a parsed file, the      *)
(* class of Python value it is (a mapping, a sequence, a number, ...), as   *)
(* far as the operations the check applies to it can tell the classes      *)
(* apart.                                                                   *)
(***************************************************************************)
EXTENDS Integers, Sequences, FiniteSets, TLC

VARIABLES
    fs,               \* content of the project directory (feature -> value)
    common_checks,    \* registry._common_checks: sequence of procedures
    language_checks,  \* registry._language_checks: Language -> sequence
    reports,          \* every VerificationReport constructed so far, by id
    registered,       \* log of the registrations made: <<list, procedure>>
    calls,            \* log of the invocations made: procedure, path, report id
    frame,            \* the call in progress: its arguments and loop position
    pc,               \* position of the program
    exit_code         \* status given to sys.exit, -1 while none

vars ==
    <<fs, common_checks, language_checks, registered, reports, calls, frame, pc,
      exit_code>>

-----------------------------------------------------------------------------
(* Bounds of the model *)

\* a directory differs from a base directory in at most this many features
MaxDeviations == 1
\* verify_project is called at most this many times on the directory
MaxRuns == 2
\* at most this many registrations are made on top of the shipped catalog
MaxRegistrations == 2
\* at most this many results are added to a report built by hand
MaxResults == 3

-----------------------------------------------------------------------------
(* models.py *)

Status == {"PASS", "FAIL", "WARN", "SKIP"}

Language == {"CPP", "PYTHON", "RUST", "TYPESCRIPT"}

CheckResult(name, status, message) ==
    [name |-> name, status |-> status, message |-> message]

VerificationReport(project_path, languages) ==
    [project_path |-> project_path, languages |-> languages, results |-> <<>>]

\* self.results = [CheckResult(...)]: the result replaces the list
addMutant(report, name, status, message) ==
    [report EXCEPT !.results = <<CheckResult(name, status, message)>>]
\* VerificationReport.add: append one CheckResult
add(report, name, status, message) ==
    [report EXCEPT !.results = Append(@, CheckResult(name, status, message))]

\* sum(1 for result in results if result.status == status)
RECURSIVE CountStatus(_, _)
CountStatus(results, status) ==
    IF results = <<>> THEN 0
    ELSE (IF Head(results).status = status THEN 1 ELSE 0)
         + CountStatus(Tail(results), status)

passed(report) == CountStatus(report.results, "PASS")

\* failed with the status of warnings
failedMutant(report) == CountStatus(report.results, "WARN")
failed(report) == CountStatus(report.results, "FAIL")

warnings(report) == CountStatus(report.results, "WARN")

-----------------------------------------------------------------------------
(* The file system *)

\* "proj" is a directory, "afile" a regular file, "nowhere" does not exist
Paths == {"proj", "afile", "nowhere"}

PathKind(path) ==
    CASE path = "proj" -> "dir"
      [] path = "afile" -> "file"
      [] OTHER -> "missing"

\* files of which the checks read only the existence
PlainFiles ==
    {"CMakeLists.txt", "Cargo.toml", "package.json", "README.md", "LICENSE",
     "LICENSE-APACHE-2.0", "LICENSE-MIT", "CHANGELOG.md", ".gitignore",
     "devbox.lock", "uv.lock"}

\* text files searched for fixed substrings or patterns
TextFiles == {".gitattributes", ".editorconfig", ".pre-commit-config.yaml"}

\* files parsed as JSON or TOML
ParsedFiles == {"devbox.json", "renovate.json", "pyproject.toml"}

\* the strings check_editorconfig looks for
EditorconfigSettings ==
    {"root = true", "charset = utf-8", "end_of_line = lf", "indent_style = space",
     "indent_size = 4", "insert_final_newline = true",
     "trim_trailing_whitespace = true"}

\* yes/no outcomes of a search in a text, keyed file:needle
TextFeatures ==
    {".gitattributes:text=auto", ".gitattributes:eol=lf", ".gitattributes:binary",
     ".pre-commit-config.yaml:ruff", ".pre-commit-config.yaml:ruff-check",
     ".pre-commit-config.yaml:ruff-format", ".pre-commit-config.yaml:mypy",
     "ci.yaml:ruff format", "ci.yaml:ruff check", "ci.yaml:mypy",
     "devbox.json:uv", "devbox.json:$schema", "renovate.json:$schema",
     "pyproject.toml:line-length"}
    \cup {".editorconfig:" \o s : s \in EditorconfigSettings}

\* the values the checks take out of the parsed files
ValueFeatures ==
    {"devbox.json:top", "devbox.json:packages", "renovate.json:top",
     "renovate.json:extends", "pyproject.toml:project",
     "pyproject.toml:dependency-groups", "pyproject.toml:tool",
     "pyproject.toml:ruff", "pyproject.toml:format", "pyproject.toml:lint",
     "pyproject.toml:preview", "pyproject.toml:select", "pyproject.toml:ignore",
     "pyproject.toml:pydocstyle", "pyproject.toml:isort",
     "pyproject.toml:flake8-copyright", "pyproject.toml:mypy"}

\* the classes of each such value, as far as the operations applied to it
\* tell them apart
ValueDom(f) ==
    CASE \* json.loads(devbox.json): a mapping, or any other JSON value
         f = "devbox.json:top" -> {"dict", "other"}
         \* json.loads(renovate.json): a mapping; a list or string ("in" works,
         \* .get does not); a number, boolean or null (neither works)
      [] f = "renovate.json:top" -> {"dict", "seq", "scalar"}
         \* renovate_config.get("extends", []): falsy; an iterable of strings
         \* without or with one containing best-practices; or a value that is
         \* not iterable or holds a non-string
      [] f = "renovate.json:extends"
            -> {"falsy", "strings", "best-practices", "nonstring"}
         \* config.get("dependency-groups", {}): falsy; a container with or
         \* without "dev"; a truthy number
      [] f = "pyproject.toml:dependency-groups"
            -> {"falsy", "dev", "nodev", "number"}
         \* config.get("tool", {}): missing, a table, or another value
      [] f = "pyproject.toml:tool" -> {"missing", "table", "other"}
         \* tool.get("ruff", {}): missing or an empty table; a non-empty table;
         \* a falsy non-table; a non-empty string or array; a truthy number
      [] f = "pyproject.toml:ruff"
            -> {"absent", "table", "falsy_other", "seq", "number"}
         \* ruff_config.get("format", {}): falsy; a table with or without
         \* line-ending = "lf"; a truthy non-table
      [] f = "pyproject.toml:format" -> {"falsy", "lf", "nolf", "other"}
         \* ruff_config.get("lint", {}): falsy; a non-empty table; a truthy
         \* non-table
      [] f = "pyproject.toml:lint" -> {"falsy", "table", "other"}
         \* lint_config.get("select", []): falsy; a container with or without
         \* "ALL"; a truthy number
      [] f = "pyproject.toml:select" -> {"falsy", "ALL", "noALL", "number"}
         \* lint_config.get("pydocstyle", {}): a table (or missing) without or
         \* with a truthy convention; a non-table
      [] f = "pyproject.toml:pydocstyle" -> {"noconvention", "convention", "other"}
         \* lint_config.get("flake8-copyright", {}): likewise, with notice-rgx
      [] f = "pyproject.toml:flake8-copyright" -> {"nonotice", "notice", "other"}
         \* tool.get("mypy", {}): falsy; a table with or without a truthy
         \* strict; a truthy non-table
      [] f = "pyproject.toml:mypy" -> {"absent", "strict", "nostrict", "other"}
         \* the values of which only the truth value is used
      [] OTHER -> {"falsy", "truthy"}

Features ==
    PlainFiles \cup TextFiles \cup ParsedFiles \cup {"src", ".github/workflows"}
    \cup TextFeatures \cup ValueFeatures

\* the values a feature can take
Dom(f) ==
    CASE f \in PlainFiles \cup TextFiles -> {"absent", "present"}
      [] f \in ParsedFiles -> {"absent", "invalid", "valid"}
      \* src: absent, a regular file, a directory without or with a package
      [] f = "src" -> {"absent", "file", "dir", "packages"}
      \* .github/workflows: absent, without ci.yaml, with ci.yaml
      [] f = ".github/workflows" -> {"absent", "empty", "ci.yaml"}
      [] f \in TextFeatures -> {"no", "yes"}
      [] OTHER -> ValueDom(f)

\* the feature and its value that have to hold for feature f to be readable:
\* a file's content needs the file, a key of a table needs the table
Requires(f) ==
    CASE f \in {".gitattributes:text=auto", ".gitattributes:eol=lf",
                ".gitattributes:binary"} -> <<".gitattributes", "present">>
      [] f \in {".editorconfig:" \o s : s \in EditorconfigSettings}
            -> <<".editorconfig", "present">>
      [] f \in {".pre-commit-config.yaml:ruff", ".pre-commit-config.yaml:ruff-check",
                ".pre-commit-config.yaml:ruff-format", ".pre-commit-config.yaml:mypy"}
            -> <<".pre-commit-config.yaml", "present">>
      [] f \in {"ci.yaml:ruff format", "ci.yaml:ruff check", "ci.yaml:mypy"}
            -> <<".github/workflows", "ci.yaml">>
      [] f = "devbox.json:top" -> <<"devbox.json", "valid">>
      [] f \in {"devbox.json:packages", "devbox.json:$schema"}
            -> <<"devbox.json:top", "dict">>
      [] f = "renovate.json:top" -> <<"renovate.json", "valid">>
      [] f = "renovate.json:extends" -> <<"renovate.json:top", "dict">>
      [] f \in {"pyproject.toml:project", "pyproject.toml:dependency-groups",
                "pyproject.toml:tool"} -> <<"pyproject.toml", "valid">>
      [] f \in {"pyproject.toml:ruff", "pyproject.toml:mypy"}
            -> <<"pyproject.toml:tool", "table">>
      [] f \in {"pyproject.toml:line-length", "pyproject.toml:format",
                "pyproject.toml:lint"} -> <<"pyproject.toml:ruff", "table">>
      [] f \in {"pyproject.toml:preview", "pyproject.toml:select",
                "pyproject.toml:ignore", "pyproject.toml:pydocstyle",
                "pyproject.toml:isort", "pyproject.toml:flake8-copyright"}
            -> <<"pyproject.toml:lint", "table">>
      [] OTHER -> <<>>

\* the empty directory: the value of every feature when nothing is there
EmptyValue(f) ==
    CASE f \in TextFeatures -> "no"
      [] f = "devbox.json:top" -> "other"
      [] f = "renovate.json:top" -> "scalar"
      [] f = "pyproject.toml:tool" -> "missing"
      [] f \in {"pyproject.toml:ruff", "pyproject.toml:mypy"} -> "absent"
      [] f = "pyproject.toml:pydocstyle" -> "noconvention"
      [] f = "pyproject.toml:flake8-copyright" -> "nonotice"
      [] f \in ValueFeatures -> "falsy"
      [] OTHER -> "absent"

EmptyProject == [f \in Features |-> EmptyValue(f)]

\* a Python project that meets every convention
CompliantValue(f) ==
    CASE f \in {"CMakeLists.txt", "Cargo.toml", "package.json",
                "LICENSE-APACHE-2.0", "LICENSE-MIT"} -> "absent"
      [] f \in PlainFiles \cup TextFiles -> "present"
      [] f \in ParsedFiles -> "valid"
      [] f = "src" -> "packages"
      [] f = ".github/workflows" -> "ci.yaml"
      [] f \in TextFeatures -> "yes"
      [] f \in {"devbox.json:top", "renovate.json:top"} -> "dict"
      [] f = "renovate.json:extends" -> "best-practices"
      [] f = "pyproject.toml:dependency-groups" -> "dev"
      [] f \in {"pyproject.toml:tool", "pyproject.toml:ruff", "pyproject.toml:lint"}
            -> "table"
      [] f = "pyproject.toml:format" -> "lf"
      [] f = "pyproject.toml:select" -> "ALL"
      [] f = "pyproject.toml:pydocstyle" -> "convention"
      [] f = "pyproject.toml:flake8-copyright" -> "notice"
      [] f = "pyproject.toml:mypy" -> "strict"
      [] OTHER -> "truthy"

CompliantProject == [f \in Features |-> CompliantValue(f)]

\* a Python project with every audited file in place and nothing asked for in
\* them
BareValue(f) ==
    CASE f \in {"CMakeLists.txt", "Cargo.toml", "package.json",
                "LICENSE-APACHE-2.0", "LICENSE-MIT"} -> "absent"
      [] f \in PlainFiles \cup TextFiles -> "present"
      [] f \in ParsedFiles -> "valid"
      [] f = "src" -> "dir"
      [] f = ".github/workflows" -> "ci.yaml"
      [] f \in {"devbox.json:top", "renovate.json:top"} -> "dict"
      [] f \in {"pyproject.toml:tool", "pyproject.toml:ruff", "pyproject.toml:lint"}
            -> "table"
      [] f = "pyproject.toml:mypy" -> "nostrict"
      [] f = "pyproject.toml:select" -> "noALL"
      [] f = "pyproject.toml:format" -> "nolf"
      [] OTHER -> EmptyValue(f)

BareProject == [f \in Features |-> BareValue(f)]

\* whether feature f can be read in directory g
RECURSIVE Readable(_, _)
Readable(g, f) ==
    LET r == Requires(f)
    IN  r = <<>> \/ (g[r[1]] = r[2] /\ Readable(g, r[1]))

\* one directory per content: what cannot be read is as in the empty directory
Normalize(g) ==
    [f \in Features |-> IF Readable(g, f) THEN g[f] ELSE EmptyValue(f)]

\* the directories that differ from g in at most k features
RECURSIVE Deviate(_, _)
Deviate(g, k) ==
    IF k = 0 THEN {g}
    ELSE UNION {{[h EXCEPT ![f] = v] : v \in Dom(f)} :
                    h \in Deviate(g, k - 1), f \in Features}

\* the marker files of detect_languages
MarkerFiles == {"CMakeLists.txt", "pyproject.toml", "Cargo.toml", "package.json"}

\* the directory that holds the marker files ms (pyproject.toml empty) and
\* nothing else
Polyglot(ms) ==
    [f \in Features |->
        IF f \notin ms THEN EmptyValue(f)
        ELSE IF f \in ParsedFiles THEN "valid" ELSE "present"]

\* a compliant project whose devbox.json holds a JSON list
ListDevboxProject == [CompliantProject EXCEPT !["devbox.json:top"] = "other"]

\* the directories the model is checked on: those that differ from a base in
\* at most MaxDeviations features, and every combination of marker files
Directories ==
    {Normalize(g) : g \in Deviate(EmptyProject, MaxDeviations)
                          \cup Deviate(BareProject, MaxDeviations)
                          \cup Deviate(CompliantProject, MaxDeviations)
                          \cup Deviate(ListDevboxProject, MaxDeviations)}
    \cup {Polyglot(ms) : ms \in SUBSET MarkerFiles}

\* the content of the directory at path: only "proj" has any
ReadFs(path) == IF path = "proj" THEN fs ELSE EmptyProject

\* Path.exists() in the place of Path.is_dir()
is_dirMutant(path) == PathKind(path) # "missing"
\* Path.is_dir()
is_dir(path) == PathKind(path) = "dir"

\* (path / name).exists()
exists(path, name) ==
    IF name = ".github/workflows/ci.yaml"
    THEN ReadFs(path)[".github/workflows"] = "ci.yaml"
    ELSE ReadFs(path)[name] # "absent"

\* needle in (path / file).read_text(), or re.search(pattern, ...): a text
\* that holds ruff-check or ruff-format holds ruff
contains(path, file, needle) ==
    LET g == ReadFs(path)
    IN  IF file = ".pre-commit-config.yaml" /\ needle = "ruff"
        THEN \E n \in {"ruff", "ruff-check", "ruff-format"} :
                 g[".pre-commit-config.yaml:" \o n] = "yes"
        ELSE g[file \o ":" \o needle] = "yes"

\* a value taken out of a parsed file
value(path, key) == ReadFs(path)[key]

-----------------------------------------------------------------------------
(* checks/base.py *)

\* the default of fail_message
None == "<None>"

\* the default of fail_message left as it is, not replaced by "Missing <name>"
check_file_existsMutant(path, name, fail_status, fail_message) ==
    IF exists(path, name) THEN <<"PASS", "">>
    ELSE <<fail_status, IF fail_message = None THEN "" ELSE fail_message>>
\* check_file_exists(path / name, fail_status, fail_message)
check_file_exists(path, name, fail_status, fail_message) ==
    IF exists(path, name) THEN <<"PASS", "">>
    ELSE <<fail_status,
           IF fail_message = None THEN "Missing " \o name ELSE fail_message>>

-----------------------------------------------------------------------------
(* Check procedures.  A procedure is modelled by what it does to the report *)
(* it is given: the results it adds, in order, and whether it returns or    *)
(* raises after them.                                                       *)

Returns(results) == [added |-> results, raised |-> FALSE]

Raises(results) == [added |-> results, raised |-> TRUE]

\* the passing branch carries the message of the other branch
EitherMutant(cond, name, status, message) ==
    IF cond THEN <<CheckResult(name, "PASS", message)>>
    ELSE <<CheckResult(name, status, message)>>
\* the result added by: if cond: add(name, PASS) else: add(name, status, message)
Either(cond, name, status, message) ==
    IF cond THEN <<CheckResult(name, "PASS", "")>>
    ELSE <<CheckResult(name, status, message)>>

(* checks/common.py *)

check_readme(path) ==
    LET e == check_file_exists(path, "README.md", "FAIL", None)
    IN  Returns(<<CheckResult("README.md exists", e[1], e[2])>>)

check_license(path) ==
    IF \E lf \in {"LICENSE", "LICENSE-APACHE-2.0", "LICENSE-MIT"} :
           check_file_exists(path, lf, "FAIL", None)[1] = "PASS"
    THEN Returns(<<CheckResult("LICENSE exists", "PASS", "")>>)
    ELSE Returns(<<CheckResult("LICENSE exists", "FAIL", "Missing LICENSE file")>>)

check_changelog(path) ==
    LET e == check_file_exists(path, "CHANGELOG.md", "WARN",
                               "Consider adding CHANGELOG.md")
    IN  Returns(<<CheckResult("CHANGELOG.md exists", e[1], e[2])>>)

check_gitignore(path) ==
    LET e == check_file_exists(path, ".gitignore", "FAIL", None)
    IN  Returns(<<CheckResult(".gitignore exists", e[1], e[2])>>)

check_gitatributes(path) ==
    LET e == check_file_exists(path, ".gitattributes", "FAIL", None)
        r1 == <<CheckResult(".gitattributes exists", e[1], e[2])>>
    IN  IF e[1] # "PASS" THEN Returns(r1)
        ELSE Returns(
            r1
            \o Either(contains(path, ".gitattributes", "text=auto"),
                      ".gitattributes has text=auto", "WARN",
                      "Consider adding '* text=auto' for line ending normalization")
            \o Either(contains(path, ".gitattributes", "eol=lf"),
                      ".gitattributes enforces LF", "WARN",
                      "Consider adding '* eol=lf' for consistent line endings")
            \o Either(contains(path, ".gitattributes", "binary"),
                      ".gitattributes marks some files as binary", "WARN",
                      "Consider marking binary file types as binary"))

\* check_editorconfig's check_setting(name, setting)
check_setting(path, name, setting) ==
    Either(contains(path, ".editorconfig", setting),
           ".editorconfig has " \o name, "WARN", "Missing '" \o setting \o "'")

check_editorconfig(path) ==
    LET e == check_file_exists(path, ".editorconfig", "FAIL", None)
        r1 == <<CheckResult(".editorconfig exists", e[1], e[2])>>
    IN  IF e[1] # "PASS" THEN Returns(r1)
        ELSE Returns(
            r1
            \o check_setting(path, "root=true", "root = true")
            \o check_setting(path, "charset=utf-8", "charset = utf-8")
            \o check_setting(path, "end_of_line=lf", "end_of_line = lf")
            \o check_setting(path, "indent_style=space", "indent_style = space")
            \o check_setting(path, "indent_size=4", "indent_size = 4")
            \o check_setting(path, "insert_final_newline=true",
                             "insert_final_newline = true")
            \o check_setting(path, "trim_trailing_whitespace=true",
                             "trim_trailing_whitespace = true"))

check_devbox(path) ==
    LET e == check_file_exists(path, "devbox.json", "FAIL", None)
        r1 == <<CheckResult("devbox.json exists", e[1], e[2])>>
        r2 == r1 \o <<CheckResult("devbox.json is valid JSON", "PASS", "")>>
        lock == check_file_exists(path, "devbox.lock", "WARN",
                                  "Consider adding devbox.lock for reproducibility")
    IN  IF e[1] # "PASS" THEN Returns(r1)
        ELSE IF value(path, "devbox.json") = "invalid"
        THEN Returns(r1 \o <<CheckResult("devbox.json is valid JSON", "FAIL",
                                         "Invalid JSON in devbox.json")>>)
        \* devbox_config.get: only a mapping has it
        ELSE IF value(path, "devbox.json:top") # "dict" THEN Raises(r2)
        ELSE Returns(
            r2
            \o Either(value(path, "devbox.json:packages") = "truthy",
                      "devbox.json has packages defined", "WARN",
                      "No packages defined in devbox.json")
            \o Either(contains(path, "devbox.json", "$schema"),
                      "devbox.json has $schema", "WARN",
                      "Consider adding $schema for validation")
            \o <<CheckResult("devbox.lock exists", lock[1], lock[2])>>)

check_pre_commit(path) ==
    LET e == check_file_exists(path, ".pre-commit-config.yaml", "FAIL", None)
    IN  Returns(<<CheckResult(".pre-commit-config.yaml exists", e[1], e[2])>>)

check_renovate(path) ==
    LET e == check_file_exists(path, "renovate.json", "WARN", None)
        r1 == <<CheckResult("Renovate configuration exists", e[1], e[2])>>
        r2 == r1 \o <<CheckResult("renovate.json is valid JSON", "PASS", "")>>
        top == value(path, "renovate.json:top")
        r3 == r2 \o Either(contains(path, "renovate.json", "$schema"),
                           "renovate.json has $schema", "WARN",
                           "Consider adding $schema for validation")
        extends == value(path, "renovate.json:extends")
        r4 == r3 \o <<CheckResult("Renovate has extends configured", "PASS", "")>>
    IN  IF e[1] # "PASS" THEN Returns(r1)
        ELSE IF value(path, "renovate.json") = "invalid"
        THEN Returns(r1 \o <<CheckResult("renovate.json is valid JSON", "FAIL",
                                         "Invalid JSON")>>)
        \* "$schema" in renovate_config: a number, boolean or null has no "in"
        ELSE IF top = "scalar" THEN Raises(r2)
        \* renovate_config.get: a list or string has none
        ELSE IF top = "seq" THEN Raises(r3)
        ELSE IF extends = "falsy"
        THEN Returns(r3 \o <<CheckResult("Renovate has extends configured", "WARN",
                                         "Consider using extends for presets")>>)
        \* any("best-practices" in preset for preset in extends)
        ELSE IF extends = "nonstring" THEN Raises(r4)
        ELSE Returns(r4 \o Either(extends = "best-practices",
                                  "Renovate extends best-practices", "WARN",
                                  "Consider extending config:best-practices"))

check_github_actions(path) ==
    LET e == check_file_exists(path, ".github/workflows/ci.yaml", "FAIL",
                               "Missing .github/workflows/ci.yaml")
    IN  IF ~exists(path, ".github/workflows")
        THEN Returns(<<CheckResult("GitHub Actions workflows directory exists",
                                   "FAIL", "Missing .github/workflows/")>>)
        ELSE Returns(<<CheckResult("GitHub Actions workflows directory exists",
                                   "PASS", ""),
                       CheckResult("GitHub Actions CI workflow exists", e[1], e[2])>>)

(* checks/python.py *)

\* the value of tomllib.load(pyproject.toml), where the checks that read it
\* repeat check_pyproject_toml's tests: "absent", "invalid" or "valid"
pyproject(path) == value(path, "pyproject.toml")

check_pyproject_toml(path) ==
    LET e == check_file_exists(path, "pyproject.toml", "FAIL", None)
        r1 == <<CheckResult("pyproject.toml exists", "PASS", "")>>
    IN  IF e[1] # "PASS"
        THEN Returns(<<CheckResult("pyproject.toml exists", "FAIL", e[2])>>)
        ELSE IF pyproject(path) = "invalid"
        THEN Returns(r1 \o <<CheckResult("pyproject.toml valid TOML", "FAIL",
                                         "Invalid TOML: <e>")>>)
        ELSE Returns(
            r1
            \o <<CheckResult("pyproject.toml valid TOML", "PASS", "")>>
            \o Either(value(path, "pyproject.toml:project") = "truthy",
                      "pyproject.toml has [project] section", "FAIL",
                      "Missing [project] section"))

check_src_layout(path) ==
    LET src == value(path, "src")
    IN  IF check_file_exists(path, "src", "FAIL", None)[1] = "PASS"
           /\ src \in {"dir", "packages"}
        THEN Returns(
            <<CheckResult("src/ directory exists", "PASS", "")>>
            \o Either(src = "packages", "src/ contains packages", "WARN",
                      "No packages found in src/ directory"))
        ELSE Returns(<<CheckResult("src/ directory exists", "WARN",
                                   "Consider using a src/ layout for source code")>>)

check_uv_lock(path) ==
    Returns(Either(check_file_exists(path, "uv.lock", "FAIL", None)[1] = "PASS",
                   "uv.lock file exists", "WARN",
                   "Consider adding uv.lock for dependency locking"))

check_dependency_groups(path) ==
    LET dep_groups == value(path, "pyproject.toml:dependency-groups")
        r1 == <<CheckResult("Has dependency-groups", "PASS", "")>>
    IN  IF check_file_exists(path, "pyproject.toml", "FAIL", None)[1] # "PASS"
        THEN Returns(<<>>)
        ELSE IF pyproject(path) = "invalid" THEN Returns(<<>>)
        ELSE IF dep_groups = "falsy"
        THEN Returns(<<CheckResult("Has dependency-groups", "WARN",
                         "Consider using dependency-groups for dev dependencies")>>)
        \* "dev" in dep_groups: a number has no "in"
        ELSE IF dep_groups = "number" THEN Raises(r1)
        ELSE Returns(r1 \o Either(dep_groups = "dev", "Has dev dependency group",
                                  "WARN", "Consider adding a 'dev' dependency group"))

check_ruff(path) ==
    LET ruff_config == value(path, "pyproject.toml:ruff")
        format_config == value(path, "pyproject.toml:format")
        r1 == <<CheckResult("Ruff is configured", "PASS", "")>>
        r2 == r1 \o Either(contains(path, "pyproject.toml", "line-length"),
                           "Ruff has line-length configured", "WARN",
                           "Consider setting line-length")
        r3 == r2 \o <<CheckResult("Ruff format is configured", "PASS", "")>>
    IN  IF check_file_exists(path, "pyproject.toml", "FAIL", None)[1] # "PASS"
        THEN Returns(<<>>)
        ELSE IF pyproject(path) = "invalid" THEN Returns(<<>>)
        \* config.get("tool", {}).get: only a table has it
        ELSE IF value(path, "pyproject.toml:tool") = "other" THEN Raises(<<>>)
        ELSE IF ruff_config \in {"absent", "falsy_other"}
        THEN Returns(<<CheckResult("Ruff is configured", "FAIL",
                                   "Ruff is not configured in pyproject.toml")>>)
        \* "line-length" in ruff_config: a number has no "in"
        ELSE IF ruff_config = "number" THEN Raises(r1)
        \* ruff_config.get("format", {}): a string or array has no get
        ELSE IF ruff_config = "seq" THEN Raises(r2)
        ELSE IF format_config = "falsy"
        THEN Returns(r2 \o <<CheckResult("Ruff format is configured", "WARN",
                                         "Consider configuring [tool.ruff.format]")>>)
        \* format_config.get("line-ending")
        ELSE IF format_config = "other" THEN Raises(r3)
        ELSE Returns(r3 \o Either(format_config = "lf",
                                  "Ruff format uses LF line endings", "WARN",
                                  "Consider setting line-ending = 'lf'"))

check_ruff_lint(path) ==
    LET ruff_config == value(path, "pyproject.toml:ruff")
        lint_config == value(path, "pyproject.toml:lint")
        select == value(path, "pyproject.toml:select")
        pydocstyle_config == value(path, "pyproject.toml:pydocstyle")
        copyright_config == value(path, "pyproject.toml:flake8-copyright")
        r1 == <<CheckResult("Ruff lint is configured", "PASS", "")>>
        r2 == r1 \o Either(value(path, "pyproject.toml:preview") = "truthy",
                           "Ruff lint preview mode enabled", "WARN",
                           "Consider enabling preview mode for latest rules")
        r3 == r2 \o <<CheckResult("Ruff lint has rules selected", "PASS", "")>>
        r4 == r3 \o Either(select = "ALL", "Ruff lint uses ALL rule", "WARN",
                           "Consider enabling the ALL rule")
        r5 == r4 \o (IF select = "ALL"
                     THEN Either(value(path, "pyproject.toml:ignore") = "truthy",
                                 "Ruff lint has ignore list", "WARN",
                                 "Consider adding ignore list for rules that conflict")
                     ELSE <<>>)
        r6 == r5 \o Either(pydocstyle_config = "convention",
                           "Ruff pydocstyle convention set", "WARN",
                           "Consider setting pydocstyle convention (e.g., 'google')")
        r7 == r6 \o Either(value(path, "pyproject.toml:isort") = "truthy",
                           "Ruff isort is configured", "WARN",
                           "Consider configuring isort settings")
    IN  IF check_file_exists(path, "pyproject.toml", "FAIL", None)[1] # "PASS"
        THEN Returns(<<>>)
        ELSE IF pyproject(path) = "invalid" THEN Returns(<<>>)
        \* config.get("tool", {}).get, then ruff_config.get("lint", {})
        ELSE IF value(path, "pyproject.toml:tool") = "other" THEN Raises(<<>>)
        ELSE IF ruff_config \in {"falsy_other", "seq", "number"} THEN Raises(<<>>)
        ELSE IF ruff_config = "absent" \/ lint_config = "falsy"
        THEN Returns(<<CheckResult("Ruff lint is configured", "WARN",
                                   "Consider configuring [tool.ruff.lint]")>>)
        \* lint_config.get("preview")
        ELSE IF lint_config = "other" THEN Raises(r1)
        ELSE IF select = "falsy"
        THEN Returns(r2 \o <<CheckResult("Ruff lint has rules selected", "WARN",
                                         "No lint rules selected")>>)
        \* "ALL" in select: a number has no "in"
        ELSE IF select = "number" THEN Raises(r3)
        \* pydocstyle_config.get("convention")
        ELSE IF pydocstyle_config = "other" THEN Raises(r5)
        \* copyright_config.get("notice-rgx")
        ELSE IF copyright_config = "other" THEN Raises(r7)
        ELSE Returns(r7 \o Either(copyright_config = "notice",
                                  "Ruff copyright notice configured", "WARN",
                                  "Consider configuring copyright notice regex"))

check_mypy(path) ==
    LET mypy_config == value(path, "pyproject.toml:mypy")
        r1 == <<CheckResult("mypy is configured", "PASS", "")>>
    IN  IF check_file_exists(path, "pyproject.toml", "FAIL", None)[1] # "PASS"
        THEN Returns(<<>>)
        ELSE IF pyproject(path) = "invalid" THEN Returns(<<>>)
        \* config.get("tool", {}).get
        ELSE IF value(path, "pyproject.toml:tool") = "other" THEN Raises(<<>>)
        ELSE IF mypy_config = "absent"
        THEN Returns(<<CheckResult("mypy is configured", "FAIL",
                                   "mypy is not configured in pyproject.toml")>>)
        \* mypy_config.get("strict")
        ELSE IF mypy_config = "other" THEN Raises(r1)
        ELSE Returns(r1 \o Either(mypy_config = "strict", "mypy strict mode enabled",
                                  "WARN", "Consider enabling strict mode"))

check_python_precommit_hooks(path) ==
    LET file == ".pre-commit-config.yaml"
    IN  IF check_file_exists(path, file, "FAIL", None)[1] # "PASS"
        THEN Returns(<<>>)
        ELSE Returns(
            (IF contains(path, file, "ruff")
             THEN <<CheckResult("Pre-commit has Ruff hooks", "PASS", "")>>
                  \o Either(contains(path, file, "ruff-check"),
                            "Pre-commit has ruff-check", "WARN",
                            "Consider adding ruff-check hook")
                  \o Either(contains(path, file, "ruff-format"),
                            "Pre-commit has ruff-format", "WARN",
                            "Consider adding ruff-format hook")
             ELSE <<CheckResult("Pre-commit has Ruff hooks", "WARN",
                                "Consider adding Ruff pre-commit hooks")>>)
            \o Either(contains(path, file, "mypy"), "Pre-commit has mypy hook",
                      "WARN", "Consider adding mypy pre-commit hook"))

\* the existence of devbox.json reported again by the Python procedure
check_python_devboxMutant(path) ==
    LET e == check_file_exists(path, "devbox.json", "FAIL", None)
        r1 == <<CheckResult("devbox.json exists", e[1], e[2])>>
    IN  IF e[1] # "PASS" THEN Returns(r1)
        ELSE Returns(r1 \o Either(contains(path, "devbox.json", "uv"),
                                  "Devbox includes uv", "WARN",
                                  "Consider adding uv to Devbox packages"))
check_python_devbox(path) ==
    IF check_file_exists(path, "devbox.json", "FAIL", None)[1] # "PASS"
    THEN Returns(<<>>)
    ELSE Returns(Either(contains(path, "devbox.json", "uv"), "Devbox includes uv",
                        "WARN", "Consider adding uv to Devbox packages"))

check_python_ci(path) ==
    IF check_file_exists(path, ".github/workflows/ci.yaml", "FAIL", None)[1] # "PASS"
    THEN Returns(<<>>)
    ELSE Returns(
        Either(contains(path, "ci.yaml", "ruff format"), "CI checks formatting",
               "WARN", "Consider adding format check to CI")
        \o Either(contains(path, "ci.yaml", "ruff check"), "CI runs linting",
                  "WARN", "Consider adding lint check to CI")
        \o Either(contains(path, "ci.yaml", "mypy"), "CI runs type checking",
                  "WARN", "Consider adding type check to CI"))

-----------------------------------------------------------------------------
(* Procedures *)

\* procedures that are not part of the catalog, registered to observe the
\* registry: a probe adds one result, named after it, to the report it is given
Probes == {"probe_a", "probe_b"}

probe(fn, path) == Returns(<<CheckResult(fn, "PASS", "")>>)

\* check(path, report): what the procedure named fn does
Invoke(fn, path) ==
    CASE fn = "check_readme" -> check_readme(path)
      [] fn = "check_license" -> check_license(path)
      [] fn = "check_changelog" -> check_changelog(path)
      [] fn = "check_gitignore" -> check_gitignore(path)
      [] fn = "check_gitatributes" -> check_gitatributes(path)
      [] fn = "check_editorconfig" -> check_editorconfig(path)
      [] fn = "check_devbox" -> check_devbox(path)
      [] fn = "check_pre_commit" -> check_pre_commit(path)
      [] fn = "check_renovate" -> check_renovate(path)
      [] fn = "check_github_actions" -> check_github_actions(path)
      [] fn = "check_pyproject_toml" -> check_pyproject_toml(path)
      [] fn = "check_src_layout" -> check_src_layout(path)
      [] fn = "check_uv_lock" -> check_uv_lock(path)
      [] fn = "check_dependency_groups" -> check_dependency_groups(path)
      [] fn = "check_ruff" -> check_ruff(path)
      [] fn = "check_ruff_lint" -> check_ruff_lint(path)
      [] fn = "check_mypy" -> check_mypy(path)
      [] fn = "check_python_precommit_hooks" -> check_python_precommit_hooks(path)
      [] fn = "check_python_devbox" -> check_python_devbox(path)
      [] fn = "check_python_ci" -> check_python_ci(path)
      [] OTHER -> probe(fn, path)

-----------------------------------------------------------------------------
(* checks/registry.py *)

\* _common_checks.insert(0, fn) in the place of append
register_commonMutant(checks, fn) == [checks |-> <<fn>> \o checks, result |-> fn]
\* _common_checks.append(fn); return fn
register_common(checks, fn) == [checks |-> Append(checks, fn), result |-> fn]

\* the languages sharing one list, as dict.fromkeys(Language, []) makes them
decoratorMutant(checks, language, fn) ==
    [checks |-> [l \in DOMAIN checks |-> Append(checks[l], fn)], result |-> fn]
\* register_language(language)'s decorator:
\* _language_checks[language].append(fn); return fn
decorator(checks, language, fn) ==
    [checks |-> [checks EXCEPT ![language] = Append(@, fn)], result |-> fn]

\* the @register_common procedures of checks/common.py, in the order of the file
CommonCatalog ==
    <<"check_readme", "check_license", "check_changelog", "check_gitignore",
      "check_gitatributes", "check_editorconfig", "check_devbox",
      "check_pre_commit", "check_renovate", "check_github_actions">>

\* the @register_language(Language.PYTHON) procedures of checks/python.py
PythonCatalog ==
    <<"check_pyproject_toml", "check_src_layout", "check_uv_lock",
      "check_dependency_groups", "check_ruff", "check_ruff_lint", "check_mypy",
      "check_python_precommit_hooks", "check_python_devbox", "check_python_ci">>

\* the registry once norms.checks is imported: every procedure of the catalog
\* registered by its decorator
RECURSIVE ImportCommon(_, _)
ImportCommon(checks, fns) ==
    IF fns = <<>> THEN checks
    ELSE ImportCommon(register_common(checks, Head(fns)).checks, Tail(fns))

RECURSIVE ImportLanguage(_, _, _)
ImportLanguage(checks, language, fns) ==
    IF fns = <<>> THEN checks
    ELSE ImportLanguage(decorator(checks, language, Head(fns)).checks,
                        language, Tail(fns))

\* only the first language of the collection has its procedures run
CurrentListMutant(order, li) ==
    IF li = 0 THEN common_checks
    ELSE IF li = 1 THEN language_checks[order[li]]
    ELSE <<>>
\* the list run_all_checks iterates at position li of its loops: the common
\* list first (li = 0), then _language_checks.get(language, []) for the li-th
\* language of the collection
CurrentList(order, li) ==
    IF li = 0 THEN common_checks
    ELSE IF order[li] \in DOMAIN language_checks THEN language_checks[order[li]]
    ELSE <<>>

\* the loops' next position at or after (li, j) that holds a procedure;
\* li = Len(order) + 1 when there is none
RECURSIVE Seek(_, _, _)
Seek(order, li, j) ==
    IF li > Len(order) THEN <<li, 1>>
    ELSE IF j <= Len(CurrentList(order, li)) THEN <<li, j>>
    ELSE Seek(order, li + 1, 1)

\* whether run_all_checks has no procedure left to invoke
Finished(x) == Seek(x.order, x.li, x.j)[1] > Len(x.order)

\* one iteration of run_all_checks: check(path, report) for the next
\* procedure.  x holds the arguments (path, the collection in the order it is
\* iterated, the report's id), the position, the report's results, the log.
InvokeNext(x) ==
    LET pos == Seek(x.order, x.li, x.j)
        fn == CurrentList(x.order, pos[1])[pos[2]]
        out == Invoke(fn, x.path)
    IN  [x EXCEPT !.li = pos[1], !.j = pos[2] + 1,
                  !.results = @ \o out.added,
                  !.calls = Append(@, [fn |-> fn, path |-> x.path,
                                       report |-> x.report,
                                       group |-> IF pos[1] = 0 THEN "common"
                                                 ELSE x.order[pos[1]]]),
                  !.status = IF out.raised THEN "raised" ELSE "running"]

\* run_all_checks(path, languages, report) from position x until it returns
\* or a procedure raises
RECURSIVE run_all_checks(_)
run_all_checks(x) ==
    IF x.status # "running" THEN x
    ELSE IF Finished(x) THEN [x EXCEPT !.status = "returned"]
    ELSE run_all_checks(InvokeNext(x))

\* the orders in which a collection of languages can be iterated
Orders(languages) ==
    {o \in [1..Cardinality(languages) -> languages] :
        \A a, b \in DOMAIN o : a # b => o[a] # o[b]}

\* every order of every collection of distinct languages
AllOrders == UNION {Orders(languages) : languages \in SUBSET Language}

-----------------------------------------------------------------------------
(* detection.py *)

\* PYTHON detected by uv.lock in the place of pyproject.toml
detect_languagesLockMutant(path) ==
    (IF exists(path, "CMakeLists.txt") THEN {"CPP"} ELSE {})
    \cup (IF exists(path, "uv.lock") THEN {"PYTHON"} ELSE {})
    \cup (IF exists(path, "Cargo.toml") THEN {"RUST"} ELSE {})
    \cup (IF exists(path, "package.json") THEN {"TYPESCRIPT"} ELSE {})
\* the tests chained by elif: the first marker found decides
detect_languagesMutant(path) ==
    IF exists(path, "CMakeLists.txt") THEN {"CPP"}
    ELSE IF exists(path, "pyproject.toml") THEN {"PYTHON"}
    ELSE IF exists(path, "Cargo.toml") THEN {"RUST"}
    ELSE IF exists(path, "package.json") THEN {"TYPESCRIPT"}
    ELSE {}
detect_languages(path) ==
    (IF exists(path, "CMakeLists.txt") THEN {"CPP"} ELSE {})
    \cup (IF exists(path, "pyproject.toml") THEN {"PYTHON"} ELSE {})
    \cup (IF exists(path, "Cargo.toml") THEN {"RUST"} ELSE {})
    \cup (IF exists(path, "package.json") THEN {"TYPESCRIPT"} ELSE {})

-----------------------------------------------------------------------------
(* The state *)

\* no call made yet
NoFrame ==
    [op |-> "none", path |-> "", order |-> <<>>, report |-> 0, li |-> 0, j |-> 1,
     fn |-> "", result |-> ""]

\* the position of a run_all_checks in progress, from the variables
Position ==
    [path |-> frame.path, order |-> frame.order, report |-> frame.report,
     li |-> frame.li, j |-> frame.j, results |-> reports[frame.report].results,
     calls |-> calls, status |-> "running"]

RECURSIVE SumLen(_, _)
SumLen(checks, languages) ==
    IF languages = {} THEN 0
    ELSE LET l == CHOOSE l \in languages : TRUE
         IN  Len(checks[l]) + SumLen(checks, languages \ {l})

\* the registrations made since the import
Registrations ==
    Len(common_checks) + SumLen(language_checks, DOMAIN language_checks)
    - Len(CommonCatalog) - Len(PythonCatalog)

\* the state once norms.checks is imported
Imported ==
    /\ common_checks = ImportCommon(<<>>, CommonCatalog)
    /\ language_checks =
           ImportLanguage([lang \in Language |-> <<>>], "PYTHON", PythonCatalog)
    /\ registered = [i \in 1..Len(CommonCatalog) |-> <<"common", CommonCatalog[i]>>]
                    \o [i \in 1..Len(PythonCatalog) |-> <<"PYTHON", PythonCatalog[i]>>]
    /\ calls = <<>>
    /\ frame = NoFrame
    /\ pc = "idle"
    /\ exit_code = -1

-----------------------------------------------------------------------------
(* verification.py *)

\* verify_project(path) when path is not a directory: sys.exit(1)
VerifyNotDir(path) ==
    /\ pc \in {"idle", "returned", "raised"}
    /\ Len(reports) < MaxRuns
    /\ ~is_dir(path)
    /\ pc' = "exited"
    /\ exit_code' = 1
    /\ frame' = [NoFrame EXCEPT !.op = "verify_project", !.path = path]
    /\ UNCHANGED <<fs, common_checks, language_checks, registered, reports, calls>>

\* verify_project(path) up to its call of run_all_checks: the languages are
\* detected and the report constructed; order is the order in which
\* run_all_checks will iterate the set
VerifyEnter(path, order) ==
    /\ pc \in {"idle", "returned", "raised"}
    /\ Len(reports) < MaxRuns
    /\ is_dir(path)
    /\ LET languages == detect_languages(path)
       IN  /\ order \in Orders(languages)
           /\ reports' = Append(reports, VerificationReport(path, languages))
    /\ calls' = Append(calls, [fn |-> "detect_languages", path |-> path,
                               report |-> 0, group |-> "detection"])
    /\ frame' = [NoFrame EXCEPT !.op = "verify_project", !.path = path,
                                !.order = order, !.report = Len(reports) + 1]
    /\ pc' = "checks"
    /\ UNCHANGED <<fs, common_checks, language_checks, registered, exit_code>>

\* one iteration of the run_all_checks called by verify_project
RunCheck ==
    /\ pc = "checks"
    /\ ~Finished(Position)
    /\ \E x \in {InvokeNext(Position)} :
           /\ reports' = [reports EXCEPT ![frame.report].results = x.results]
           /\ calls' = x.calls
           /\ frame' = [frame EXCEPT !.li = x.li, !.j = x.j]
           /\ pc' = IF x.status = "raised" THEN "raised" ELSE "checks"
    /\ UNCHANGED <<fs, common_checks, language_checks, registered, exit_code>>

\* the test of the language set inverted: the warning added when a
\* language was detected
FinishMutant(report) ==
    IF Cardinality(report.languages) # 0
    THEN add(report, "Language detection", "WARN",
             "No supported programming languages detected")
    ELSE report
\* the report after verify_project's last statements:
\* if len(languages) == 0: report.add("Language detection", WARN, ...)
Finish(report) ==
    IF Cardinality(report.languages) = 0
    THEN add(report, "Language detection", "WARN",
             "No supported programming languages detected")
    ELSE report

\* run_all_checks has returned: verify_project finishes and returns the report
VerifyReturn ==
    /\ pc = "checks"
    /\ Finished(Position)
    /\ reports' = [reports EXCEPT ![frame.report] = Finish(@)]
    /\ frame' = [frame EXCEPT !.li = Len(frame.order) + 1, !.j = 1,
                              !.result = "report"]
    /\ pc' = "returned"
    /\ UNCHANGED <<fs, common_checks, language_checks, registered, calls, exit_code>>

\* verify_project on a directory of the model, with the shipped catalog
Init ==
    /\ fs \in Directories
    /\ reports = <<>>
    /\ Imported

Next ==
    \/ \E path \in Paths : VerifyNotDir(path)
    \/ \E path \in Paths, order \in AllOrders : VerifyEnter(path, order)
    \/ RunCheck
    \/ VerifyReturn

Spec == Init /\ [][Next]_vars

-----------------------------------------------------------------------------
(* The registry used directly: procedures are registered on top of the      *)
(* catalog, then run_all_checks is called once on a report of the caller's. *)

RegisterCommon(fn) ==
    /\ pc = "idle"
    /\ Registrations < MaxRegistrations
    /\ LET r == register_common(common_checks, fn)
       IN  /\ common_checks' = r.checks
           /\ frame' = [NoFrame EXCEPT !.op = "register_common", !.fn = fn,
                                       !.result = r.result]
    /\ registered' = Append(registered, <<"common", fn>>)
    /\ UNCHANGED <<fs, language_checks, reports, calls, pc, exit_code>>

RegisterLanguage(language, fn) ==
    /\ pc = "idle"
    /\ Registrations < MaxRegistrations
    /\ LET r == decorator(language_checks, language, fn)
       IN  /\ language_checks' = r.checks
           /\ frame' = [NoFrame EXCEPT !.op = "register_language", !.fn = fn,
                                       !.result = r.result]
    /\ registered' = Append(registered, <<language, fn>>)
    /\ UNCHANGED <<fs, common_checks, reports, calls, pc, exit_code>>

\* run_all_checks(path, languages, report), languages iterated in order
RunAllChecks(path, order, report) ==
    /\ pc = "idle"
    /\ \E x \in {run_all_checks(
                    [path |-> path, order |-> order, report |-> report, li |-> 0,
                     j |-> 1, results |-> reports[report].results, calls |-> calls,
                     status |-> "running"])} :
           /\ reports' = [reports EXCEPT ![report].results = x.results]
           /\ calls' = x.calls
           /\ frame' = [NoFrame EXCEPT !.op = "run_all_checks", !.path = path,
                                       !.order = order, !.report = report,
                                       !.li = x.li, !.j = x.j]
           /\ pc' = x.status
    /\ UNCHANGED <<fs, common_checks, language_checks, registered, exit_code>>

InitRegistry ==
    /\ fs \in {CompliantProject, Normalize(ListDevboxProject)}
    /\ reports = <<VerificationReport("proj", {}), VerificationReport("proj", {})>>
    /\ Imported

\* the languages callers register procedures under: one that has shipped
\* procedures and one that has none (CPP and TYPESCRIPT stay without any)
ProbeLanguages == {"PYTHON", "RUST"}

NextRegistry ==
    \/ \E fn \in Probes : RegisterCommon(fn)
    \/ \E language \in ProbeLanguages, fn \in Probes : RegisterLanguage(language, fn)
    \/ \E order \in AllOrders, report \in DOMAIN reports :
           RunAllChecks("proj", order, report)

SpecRegistry == InitRegistry /\ [][NextRegistry]_vars

-----------------------------------------------------------------------------
(* A report built by hand *)

Add(name, status, message) ==
    /\ pc = "idle"
    /\ Len(reports[1].results) < MaxResults
    /\ reports' = [reports EXCEPT ![1] = add(@, name, status, message)]
    /\ UNCHANGED <<fs, common_checks, language_checks, registered, calls, frame, pc,
                   exit_code>>

InitReport ==
    /\ fs = EmptyProject
    /\ reports = <<VerificationReport("proj", {})>>
    /\ Imported

NextReport ==
    \E name \in {"a", "b"}, status \in Status, message \in {"", "m"} :
        Add(name, status, message)

SpecReport == InitReport /\ [][NextReport]_vars

-----------------------------------------------------------------------------
(* cli.py: the verify command, with the module's own report, checks and      *)
(* verify_project.  A run of the command is a process: it ends in sys.exit   *)
(* or in an exception nothing catches.                                       *)

\* cli.check_file_exists(path, filename)
cli_check_file_exists(path, filename) ==
    IF exists(path, filename) THEN <<"PASS", "">>
    ELSE <<"FAIL", "Missing " \o filename>>

\* required_files of cli.check_common
required_files ==
    <<<<".editorconfig", "EditorConfig configuration">>,
      <<".gitattributes", "Git attributes">>,
      <<".gitignore", "Git ignore">>,
      <<"LICENSE", "License file">>,
      <<"README.md", "README">>>>

\* cli.check_common(path, report)
cli_check_common(path) ==
    LET required ==
            [i \in DOMAIN required_files |->
                LET e == cli_check_file_exists(path, required_files[i][1])
                IN  CheckResult(required_files[i][2], e[1], e[2])]
        devbox == required \o <<CheckResult("Devbox configuration", "PASS", "")>>
        rest ==
            Either(exists(path, ".pre-commit-config.yaml"),
                   "Pre-commit configuration", "FAIL",
                   "Missing .pre-commit-config.yaml")
            \o Either(exists(path, "renovate.json"), "Renovate configuration",
                      "WARN", "Missing renovate.json")
    IN  IF ~exists(path, "devbox.json")
        THEN Returns(required
                     \o <<CheckResult("Devbox configuration", "FAIL",
                                      "Missing devbox.json")>>
                     \o rest)
        ELSE IF value(path, "devbox.json") = "invalid"
        THEN Returns(devbox
                     \o <<CheckResult("Devbox valid JSON", "FAIL", "Invalid JSON")>>
                     \o rest)
        \* devbox_config.get: only a mapping has it, and only JSONDecodeError
        \* is caught
        ELSE IF value(path, "devbox.json:top") # "dict" THEN Raises(devbox)
        ELSE Returns(devbox
                     \o Either(value(path, "devbox.json:packages") = "truthy",
                               "Devbox has packages", "WARN", "No packages defined")
                     \o rest)

\* cli.detect_languages(path): a list, in the order of the tests
cli_detect_languages(path) ==
    (IF exists(path, "CMakeLists.txt") THEN <<"CPP">> ELSE <<>>)
    \o (IF exists(path, "pyproject.toml") THEN <<"PYTHON">> ELSE <<>>)
    \o (IF exists(path, "Cargo.toml") THEN <<"RUST">> ELSE <<>>)
    \o (IF exists(path, "package.json") THEN <<"TYPESCRIPT">> ELSE <<>>)

\* cli.verify_project(path) on a directory: the report, and whether the call
\* raised; check_cpp, check_python, check_rust and check_typescript do nothing
cli_verify_project(path) ==
    LET languages == cli_detect_languages(path)
        report == VerificationReport(path, languages)
        out == cli_check_common(path)
        checked == [report EXCEPT !.results = out.added]
    IN  [report |-> IF ~out.raised /\ Len(languages) = 0
                    THEN add(checked, "Language detection", "WARN",
                             "No supported programming languages detected")
                    ELSE checked,
         raised |-> out.raised]

\* the exit status of the command reversed
verifyStatusMutant(report) == IF failed(report) > 0 THEN 0 ELSE 1
\* sys.exit(1 if report.failed > 0 else 0)
verifyStatus(report) == IF failed(report) > 0 THEN 1 ELSE 0

\* norms verify PATH, PATH not a directory: sys.exit(1) in cli.verify_project
CliVerifyNotDir(path) ==
    /\ pc = "idle"
    /\ ~is_dir(path)
    /\ pc' = "exited"
    /\ exit_code' = 1
    /\ frame' = [NoFrame EXCEPT !.op = "cli.verify", !.path = path]
    /\ UNCHANGED <<fs, common_checks, language_checks, registered, reports, calls>>

\* norms verify PATH [--json] on a directory: the report is built, rendered
\* as text or JSON, and the process exits; when check_common raises nothing
\* is rendered and the exit status is not one the command sets
CliVerify(path, output_json) ==
    /\ pc = "idle"
    /\ is_dir(path)
    /\ \E v \in {cli_verify_project(path)} :
           /\ reports' = Append(reports, v.report)
           /\ frame' = [NoFrame EXCEPT
                           !.op = "cli.verify", !.path = path,
                           !.report = Len(reports) + 1,
                           !.result = IF v.raised THEN ""
                                      ELSE IF output_json THEN "json" ELSE "text"]
           /\ pc' = IF v.raised THEN "aborted" ELSE "exited"
           /\ exit_code' = IF v.raised THEN exit_code ELSE verifyStatus(v.report)
    /\ calls' = Append(calls, [fn |-> "cli.verify_project", path |-> path,
                               report |-> Len(reports) + 1, group |-> "cli"])
    /\ UNCHANGED <<fs, common_checks, language_checks, registered>>

NextCli ==
    \/ \E path \in Paths : CliVerifyNotDir(path)
    \/ \E path \in Paths, output_json \in BOOLEAN : CliVerify(path, output_json)

SpecCli == Init /\ [][NextCli]_vars

-----------------------------------------------------------------------------
(* Properties *)

Range(seq) == {seq[i] : i \in DOMAIN seq}

\* the number of results of the report with the status
NumberOf(report, status) ==
    Cardinality({i \in DOMAIN report.results : report.results[i].status = status})

\* C1: after any sequence of add calls, passed, failed and warnings are the
\* numbers of results with status PASS, FAIL and WARN, and their sum is at
\* most the number of results, and equal to it iff no result has status SKIP.
C1_CountsMatchResults ==
    \A r \in DOMAIN reports :
        LET report == reports[r]
            total == passed(report) + failed(report) + warnings(report)
        IN  /\ passed(report) = NumberOf(report, "PASS")
            /\ failed(report) = NumberOf(report, "FAIL")
            /\ warnings(report) = NumberOf(report, "WARN")
            /\ total <= Len(report.results)
            /\ (total = Len(report.results)) <=> (NumberOf(report, "SKIP") = 0)

\* a report with a skipped, a failed and a passed result
C1_Witness ==
    /\ Len(reports[1].results) = 3
    /\ \A status \in {"SKIP", "FAIL", "PASS"} : NumberOf(reports[1], status) = 1

\* the language a marker file stands for
MarkerOf(language) ==
    CASE language = "CPP" -> "CMakeLists.txt"
      [] language = "PYTHON" -> "pyproject.toml"
      [] language = "RUST" -> "Cargo.toml"
      [] language = "TYPESCRIPT" -> "package.json"

\* C5: the languages detect_languages returns for a directory are exactly
\* those whose marker file is in the directory, each language independently.
C5_DetectsExactlyMarkers ==
    \A r \in DOMAIN reports :
        reports[r].languages =
            {language \in Language :
                ReadFs(reports[r].project_path)[MarkerOf(language)] # "absent"}

\* three languages detected and one not
C5_Witness ==
    \E r \in DOMAIN reports :
        /\ Cardinality(reports[r].languages) = 3
        /\ fs["Cargo.toml"] = "absent"

\* C8: verify_project on a path that is not an existing directory exits with
\* status 1, and nothing was detected, constructed or invoked for the path.
C8_NotADirectoryExits ==
    /\ (frame.op = "verify_project" /\ PathKind(frame.path) # "dir") =>
          /\ pc = "exited"
          /\ exit_code = 1
          /\ \A r \in DOMAIN reports : reports[r].project_path # frame.path
          /\ \A i \in DOMAIN calls : calls[i].path # frame.path
    /\ (pc = "exited" \/ exit_code # -1) =>
          (frame.op = "verify_project" /\ PathKind(frame.path) # "dir")

\* verify_project called on a regular file, after a run on the directory
C8_Witness ==
    /\ pc = "exited"
    /\ frame.path = "afile"
    /\ Len(reports) = 1

\* the registrations under the group ("common" or a language), in order
RegisteredUnder(group) ==
    LET Under(registration) == registration[1] = group
    IN  SelectSeq(registered, Under)

\* how many times the procedure was registered under the group
TimesRegistered(group, fn) ==
    Cardinality({i \in DOMAIN registered : registered[i] = <<group, fn>>})

\* how many times the procedure was invoked for the group and the report
TimesInvoked(report, group, fn) ==
    Cardinality({i \in DOMAIN calls : /\ calls[i].report = report
                                      /\ calls[i].group = group
                                      /\ calls[i].fn = fn})

\* the invocations made, as (group, procedure) pairs
Invocations == [i \in DOMAIN calls |-> <<calls[i].group, calls[i].fn>>]

\* C2: register_common returns its argument, and once run_all_checks has
\* ended every procedure was invoked as many times as register_common
\* registered it, each time with the path and the report run_all_checks got.
C2_InvokedAsRegistered ==
    /\ frame.op = "register_common" => frame.result = frame.fn
    /\ frame.op = "run_all_checks" =>
          /\ \A registration \in Range(registered) :
                registration[1] = "common" =>
                    TimesInvoked(frame.report, "common", registration[2])
                        = TimesRegistered("common", registration[2])
          /\ \A i \in DOMAIN calls : /\ calls[i].path = frame.path
                                     /\ calls[i].report = frame.report

\* C3: run_all_checks invokes no procedure for a language that is not in the
\* collection, hence none that is registered only under such languages; a
\* language of the collection without procedures adds no invocation, and
\* run_all_checks ends in an error only when an invoked procedure raised.
C3_OnlyCollectionLanguages ==
    frame.op = "run_all_checks" =>
        /\ \A i \in DOMAIN calls :
              /\ calls[i].group \in {"common"} \cup Range(frame.order)
              /\ Invocations[i] \in Range(registered)
        /\ \A registration \in Range(registered) :
              (\A other \in Range(registered) :
                  other[2] = registration[2] =>
                      other[1] \in Language \ Range(frame.order))
              => \A i \in DOMAIN calls : calls[i].fn # registration[2]
        /\ pc = "raised" => Invoke(calls[Len(calls)].fn, frame.path).raised

\* a run that returned, over a collection holding a language without
\* procedures, while a procedure is registered under a language outside it
C3_Witness ==
    /\ frame.op = "run_all_checks"
    /\ pc = "returned"
    /\ \E language \in Range(frame.order) : RegisteredUnder(language) = <<>>
    /\ \E fn \in Probes, language \in Language \ Range(frame.order) :
          RegisteredUnder(language) = <<<<language, fn>>>>

\* the registrations of the languages of the collection, in its order
RECURSIVE Schedule(_)
Schedule(order) ==
    IF order = <<>> THEN <<>>
    ELSE RegisteredUnder(Head(order)) \o Schedule(Tail(order))

\* C4: the invocations of run_all_checks follow the common registrations in
\* registration order, then language by language in the order of the
\* collection, each language's registrations in registration order; a run
\* that ends early made the first invocations of that schedule.
C4_InvocationOrder ==
    frame.op = "run_all_checks" =>
        LET expected == RegisteredUnder("common") \o Schedule(frame.order)
        IN  /\ Len(Invocations) <= Len(expected)
            /\ Invocations = SubSeq(expected, 1, Len(Invocations))
            /\ pc = "returned" => Invocations = expected

\* a run that returned after invoking two procedures registered under the
\* second language of the collection, the first being PYTHON
C4_Witness ==
    /\ frame.op = "run_all_checks"
    /\ pc = "returned"
    /\ Len(frame.order) = 2
    /\ frame.order[1] = "PYTHON"
    /\ RegisteredUnder(frame.order[2])
           = <<<<frame.order[2], "probe_b">>, <<frame.order[2], "probe_a">>>>
    /\ Len(calls) = Len(registered)

\* whether the verify_project that constructed the report has ended
Ended(r) == r < Len(reports) \/ pc \in {"returned", "raised", "exited"}

\* C6: once verify_project has ended on a directory, every common procedure
\* and every procedure of every detected language was invoked exactly once,
\* and no procedure of another language was invoked.
C6_EveryCheckOnce ==
    \A r \in DOMAIN reports :
        Ended(r) =>
            /\ \A registration \in Range(registered) :
                  TimesInvoked(r, registration[1], registration[2])
                      = IF \/ registration[1] = "common"
                           \/ registration[1] \in reports[r].languages
                        THEN 1 ELSE 0
            /\ \A i \in DOMAIN calls :
                  calls[i].report = r => Invocations[i] \in Range(registered)

\* the results the procedures invoked for the report added to it
RECURSIVE AddedByChecks(_, _)
AddedByChecks(r, i) ==
    IF i > Len(calls) THEN <<>>
    ELSE (IF calls[i].report = r THEN Invoke(calls[i].fn, calls[i].path).added
          ELSE <<>>) \o AddedByChecks(r, i + 1)

\* C7: once verify_project has ended, the report holds the results of the
\* checks followed, when no language was detected, by exactly one result, a
\* WARN named "Language detection" that is the only result of that name, and
\* by nothing when a language was detected.
C7_LanguageDetectionWarning ==
    \A r \in DOMAIN reports :
        Ended(r) =>
            LET results == reports[r].results
                checks == AddedByChecks(r, 1)
                own == SubSeq(results, Len(checks) + 1, Len(results))
                named == {i \in DOMAIN results : results[i].name = "Language detection"}
            IN  /\ Len(checks) <= Len(results)
                /\ SubSeq(results, 1, Len(checks)) = checks
                /\ IF reports[r].languages = {}
                   THEN /\ Len(own) = 1
                        /\ own[1].name = "Language detection"
                        /\ own[1].status = "WARN"
                        /\ named = {Len(results)}
                   ELSE own = <<>> /\ named = {}

\* the names and statuses of the results, in order
NameStatus(results) ==
    [i \in DOMAIN results |-> <<results[i].name, results[i].status>>]

\* C9: two runs of verify_project on the same unchanged directory leave
\* reports with the same sequence of (name, status) pairs, whatever the
\* orders in which the two runs iterate the detected languages.
C9_RunsAgree ==
    \A r1, r2 \in DOMAIN reports :
        (Ended(r1) /\ Ended(r2)
            /\ reports[r1].project_path = reports[r2].project_path)
        => NameStatus(reports[r1].results) = NameStatus(reports[r2].results)

\* a second run that returned having iterated the languages of a Python
\* project, PYTHON not first
C9_Witness ==
    /\ Len(reports) = 2
    /\ pc = "returned"
    /\ frame.op = "verify_project"
    /\ "PYTHON" \in Range(frame.order)
    /\ frame.order[1] # "PYTHON"
    /\ Len(reports[2].results) > Len(CommonCatalog)

\* C10: no shipped check raises on a directory whose configuration files are
\* absent, invalid, or valid with content of an unexpected shape.
C10_NoCheckRaises == pc # "raised"

\* the names of the results of the report
Names(report) == {report.results[i].name : i \in DOMAIN report.results}

\* whether the report holds a result of the name and the status
Holds(report, name, status) ==
    \E i \in DOMAIN report.results :
        report.results[i].name = name /\ report.results[i].status = status

\* the results computed from what pyproject.toml holds
PyprojectContentNames ==
    {"pyproject.toml has [project] section", "Has dependency-groups",
     "Has dev dependency group", "Ruff is configured",
     "Ruff has line-length configured", "Ruff format is configured",
     "Ruff format uses LF line endings", "Ruff lint is configured",
     "Ruff lint preview mode enabled", "Ruff lint has rules selected",
     "Ruff lint uses ALL rule", "Ruff lint has ignore list",
     "Ruff pydocstyle convention set", "Ruff isort is configured",
     "Ruff copyright notice configured", "mypy is configured",
     "mypy strict mode enabled"}

\* C11: once verify_project has ended on a project whose pyproject.toml is
\* not valid TOML, the report holds a PASS "pyproject.toml exists" and a FAIL
\* "pyproject.toml valid TOML", and no result computed from the content of
\* pyproject.toml.
C11_InvalidPyproject ==
    \A r \in DOMAIN reports :
        (Ended(r) /\ ReadFs(reports[r].project_path)["pyproject.toml"] = "invalid")
        => /\ Holds(reports[r], "pyproject.toml exists", "PASS")
           /\ Holds(reports[r], "pyproject.toml valid TOML", "FAIL")
           /\ Names(reports[r]) \cap PyprojectContentNames = {}

\* the name of the result that tells whether the parsed file's syntax is valid
SyntaxName(file) ==
    CASE file = "devbox.json" -> "devbox.json is valid JSON"
      [] file = "renovate.json" -> "renovate.json is valid JSON"
      [] file = "pyproject.toml" -> "pyproject.toml valid TOML"

\* the name of the result that tells whether the parsed file exists
ExistenceName(file) ==
    CASE file = "devbox.json" -> "devbox.json exists"
      [] file = "renovate.json" -> "Renovate configuration exists"
      [] file = "pyproject.toml" -> "pyproject.toml exists"

\* the names of the results computed from what the parsed file holds
ContentNames(file) ==
    CASE file = "devbox.json" ->
            {"devbox.json has packages defined", "devbox.json has $schema",
             "Devbox includes uv"}
      [] file = "renovate.json" ->
            {"renovate.json has $schema", "Renovate has extends configured",
             "Renovate extends best-practices"}
      [] file = "pyproject.toml" -> PyprojectContentNames

\* C12: once verify_project has ended on a project where a parsed file
\* (devbox.json, renovate.json, pyproject.toml) exists with invalid syntax,
\* the report holds exactly one FAIL result for the file's syntax, apart from
\* the result for its existence, and no result computed from its content.
C12_InvalidSyntaxShortCircuits ==
    \A r \in DOMAIN reports, file \in ParsedFiles :
        (Ended(r) /\ ReadFs(reports[r].project_path)[file] = "invalid")
        => /\ Cardinality({i \in DOMAIN reports[r].results :
                              /\ reports[r].results[i].name = SyntaxName(file)
                              /\ reports[r].results[i].status = "FAIL"}) = 1
           /\ SyntaxName(file) # ExistenceName(file)
           /\ Names(reports[r]) \cap ContentNames(file) = {}

\* the names of the results the outcome of a procedure added
AddedNames(out) == {out.added[i].name : i \in DOMAIN out.added}

\* whether the outcome of a procedure added a result of the name and status
Added(out, name, status) ==
    \E i \in DOMAIN out.added :
        out.added[i].name = name /\ out.added[i].status = status

\* C13: a procedure that was invoked, found its artifact present and
\* well-formed and returned has added the result of every nested condition,
\* whatever the outcome of the sibling conditions: check_ruff_lint those of
\* pydocstyle, isort and copyright whatever preview and select are,
\* check_editorconfig those of the seven settings, check_gitatributes those of
\* text=auto, eol=lf and binary.
C13_SiblingsIndependent ==
    \A i \in DOMAIN calls :
        LET out == Invoke(calls[i].fn, calls[i].path)
        IN  ~out.raised =>
            /\ (calls[i].fn = "check_ruff_lint"
                    /\ Added(out, "Ruff lint is configured", "PASS"))
               => {"Ruff lint preview mode enabled", "Ruff lint has rules selected",
                   "Ruff pydocstyle convention set", "Ruff isort is configured",
                   "Ruff copyright notice configured"} \subseteq AddedNames(out)
            /\ (calls[i].fn = "check_editorconfig"
                    /\ Added(out, ".editorconfig exists", "PASS"))
               => {".editorconfig has root=true", ".editorconfig has charset=utf-8",
                   ".editorconfig has end_of_line=lf",
                   ".editorconfig has indent_style=space",
                   ".editorconfig has indent_size=4",
                   ".editorconfig has insert_final_newline=true",
                   ".editorconfig has trim_trailing_whitespace=true"}
                      \subseteq AddedNames(out)
            /\ (calls[i].fn = "check_gitatributes"
                    /\ Added(out, ".gitattributes exists", "PASS"))
               => {".gitattributes has text=auto", ".gitattributes enforces LF",
                   ".gitattributes marks some files as binary"}
                      \subseteq AddedNames(out)

\* the root artifact of a common check procedure: the files or the directory
\* of which one has to exist for the procedure to go on
RootArtifacts(fn) ==
    CASE fn = "check_readme" -> {"README.md"}
      [] fn = "check_license" -> {"LICENSE", "LICENSE-APACHE-2.0", "LICENSE-MIT"}
      [] fn = "check_changelog" -> {"CHANGELOG.md"}
      [] fn = "check_gitignore" -> {".gitignore"}
      [] fn = "check_gitatributes" -> {".gitattributes"}
      [] fn = "check_editorconfig" -> {".editorconfig"}
      [] fn = "check_devbox" -> {"devbox.json"}
      [] fn = "check_pre_commit" -> {".pre-commit-config.yaml"}
      [] fn = "check_renovate" -> {"renovate.json"}
      [] fn = "check_github_actions" -> {".github/workflows"}

\* C14: a common check procedure invoked on a directory where its root
\* artifact is absent returns having added exactly one result, whose status
\* is FAIL or WARN and whose message is not empty.
C14_AbsentArtifactOneResult ==
    \A i \in DOMAIN calls :
        (/\ calls[i].group = "common"
         /\ calls[i].fn \in Range(CommonCatalog)
         /\ \A file \in RootArtifacts(calls[i].fn) :
                ReadFs(calls[i].path)[file] = "absent")
        => LET out == Invoke(calls[i].fn, calls[i].path)
           IN  /\ ~out.raised
               /\ Len(out.added) = 1
               /\ out.added[1].status \in {"FAIL", "WARN"}
               /\ out.added[1].message # ""

\* verify_project has returned from a directory where every root artifact is
\* absent, every common procedure invoked
C14_Witness ==
    /\ pc = "returned"
    /\ frame.op = "verify_project"
    /\ \A fn \in Range(CommonCatalog) :
          /\ \E i \in DOMAIN calls : calls[i].fn = fn
          /\ \A file \in RootArtifacts(fn) : fs[file] = "absent"

\* C15: once verify_project has ended on an empty directory, the report
\* holds FAIL results for the missing license, README.md, GitHub Actions
\* workflows, .gitattributes and .gitignore, holds the WARN that no language
\* was detected, and holds no PASS result.
C15_EmptyDirectory ==
    \A r \in DOMAIN reports :
        (Ended(r) /\ ReadFs(reports[r].project_path) = EmptyProject)
        => /\ \A name \in {"LICENSE exists", "README.md exists",
                           "GitHub Actions workflows directory exists",
                           ".gitattributes exists", ".gitignore exists"} :
                  Holds(reports[r], name, "FAIL")
           /\ Holds(reports[r], "Language detection", "WARN")
           /\ passed(reports[r]) = 0

\* verify_project has returned from the empty directory
C15_Witness ==
    /\ pc = "returned"
    /\ frame.op = "verify_project"
    /\ fs = EmptyProject
    /\ Len(reports[Len(reports)].results) > Len(CommonCatalog)

\* C16: the verify command exits with status 0 exactly when the report it
\* rendered holds no FAIL result and with status 1 when it holds one; given a
\* path that is not a directory it exits with status 1, no report built or
\* rendered.
C16_ExitCode ==
    (frame.op = "cli.verify" /\ pc = "exited") =>
        IF PathKind(frame.path) = "dir"
        THEN /\ frame.result \in {"text", "json"}
             /\ exit_code \in {0, 1}
             /\ exit_code = 0 <=> NumberOf(reports[frame.report], "FAIL") = 0
        ELSE /\ exit_code = 1
             /\ frame.result = ""
             /\ reports = <<>>

\* the command has exited with status 0 after a report with a warning and no
\* failure
C16_Witness ==
    /\ frame.op = "cli.verify"
    /\ pc = "exited"
    /\ exit_code = 0
    /\ NumberOf(reports[frame.report], "WARN") > 0

\* the report verification.verify_project returns for the directory when
\* run_all_checks iterates the detected languages in the order
LibraryReport(path, order) ==
    LET report == VerificationReport(path, detect_languages(path))
        x == run_all_checks([path |-> path, order |-> order, report |-> 0,
                             li |-> 0, j |-> 1, results |-> <<>>, calls |-> <<>>,
                             status |-> "running"])
    IN  Finish([report EXCEPT !.results = x.results])

\* C17: the report the verify command renders has the same sequence of
\* (name, status) results as the report of verification.verify_project for
\* the same directory.
C17_CliReportIsLibraryReport ==
    (frame.op = "cli.verify" /\ pc = "exited" /\ frame.report # 0) =>
        \A order \in Orders(detect_languages(frame.path)) :
            NameStatus(reports[frame.report].results)
                = NameStatus(LibraryReport(frame.path, order).results)

\* whether the sequence begins with the other one
IsPrefix(short, long) ==
    Len(short) <= Len(long) /\ SubSeq(long, 1, Len(short)) = short

\* C18: a report starts without results; every step of verify_project keeps
\* the reports there are and leaves the results each one had as the first of
\* those it has; and at every point the results are those of the checks
\* invoked so far, in the order of the invocations, followed by nothing but
\* what verify_project itself added.
C18_AppendOnly ==
    /\ [][/\ \A r \in DOMAIN reports :
                /\ r \in DOMAIN reports'
                /\ IsPrefix(reports[r].results, reports'[r].results)
          /\ \A r \in DOMAIN reports' \ DOMAIN reports :
                reports'[r].results = <<>>]_vars
    /\ [](\A r \in DOMAIN reports :
            LET results == reports[r].results
                checks == AddedByChecks(r, 1)
            IN  /\ IsPrefix(checks, results)
                /\ \A i \in (Len(checks) + 1)..Len(results) :
                      results[i].name = "Language detection")

\* verify_project has returned a report that holds the results of several
\* checks and, last, its own warning
C18_Witness ==
    /\ pc = "returned"
    /\ frame.op = "verify_project"
    /\ LET results == reports[frame.report].results
       IN  /\ Len(results) > Len(CommonCatalog)
           /\ results[Len(results)].name = "Language detection"
           /\ results[1].name = "README.md exists"

\* C19: in every report of verify_project with the shipped catalog, no two
\* results have the same name.
C19_NamesUnique ==
    \A r \in DOMAIN reports :
        \A i, j \in DOMAIN reports[r].results :
            reports[r].results[i].name = reports[r].results[j].name => i = j

\* verify_project has returned the report of a Python project, with the
\* results of the common and of the Python procedures
C19_Witness ==
    /\ pc = "returned"
    /\ frame.op = "verify_project"
    /\ Holds(reports[frame.report], "devbox.json exists", "PASS")
    /\ Holds(reports[frame.report], "Devbox includes uv", "PASS")
    /\ Holds(reports[frame.report], "Ruff copyright notice configured", "PASS")
    /\ Len(reports[frame.report].results) > 2 * Len(CommonCatalog)

\* the names of the results of the Python procedures that are not computed
\* from the content of pyproject.toml
PythonOtherNames ==
    {"pyproject.toml exists", "pyproject.toml valid TOML", "src/ directory exists",
     "src/ contains packages", "uv.lock file exists", "Pre-commit has Ruff hooks",
     "Pre-commit has ruff-check", "Pre-commit has ruff-format",
     "Pre-commit has mypy hook", "Devbox includes uv", "CI checks formatting",
     "CI runs linting", "CI runs type checking"}

\* C20: at every point of verify_project on a directory, a result named
\* "pyproject.toml exists" has status PASS, never FAIL; and when
\* pyproject.toml is absent no Python procedure is invoked and the report
\* holds no result of a Python procedure.
C20_NoPyprojectExistsFail ==
    \A r \in DOMAIN reports :
        /\ \A i \in DOMAIN reports[r].results :
              reports[r].results[i].name = "pyproject.toml exists"
                  => reports[r].results[i].status = "PASS"
        /\ ReadFs(reports[r].project_path)["pyproject.toml"] = "absent"
           => /\ Names(reports[r]) \cap (PythonOtherNames \cup PyprojectContentNames)
                    = {}
              /\ \A i \in DOMAIN calls :
                    calls[i].report = r => calls[i].fn \notin Range(PythonCatalog)

\* verify_project has returned from a directory without pyproject.toml where
\* another language was detected
C20_Witness ==
    /\ pc = "returned"
    /\ frame.op = "verify_project"
    /\ fs["pyproject.toml"] = "absent"
    /\ reports[frame.report].languages # {}

\* C21: in every report of verify_project, at every point of the run, a
\* result with status PASS has an empty message, a result with status FAIL or
\* WARN has a non-empty message, and no result has status SKIP, so that
\* passed + failed + warnings equals the number of results.
C21_MessageFollowsStatus ==
    \A r \in DOMAIN reports :
        /\ \A i \in DOMAIN reports[r].results :
              LET result == reports[r].results[i]
              IN  /\ result.status # "SKIP"
                  /\ result.status = "PASS" => result.message = ""
                  /\ result.status \in {"FAIL", "WARN"} => result.message # ""
        /\ passed(reports[r]) + failed(reports[r]) + warnings(reports[r])
              = Len(reports[r].results)

\* verify_project has returned a report of a Python project that holds
\* results of all three statuses, among them passing and warning results of
\* two-way tests on the content of the files
C21_Witness ==
    /\ pc = "returned"
    /\ frame.op = "verify_project"
    /\ "PYTHON" \in reports[frame.report].languages
    /\ \A status \in {"PASS", "FAIL", "WARN"} :
          \E i \in DOMAIN reports[frame.report].results :
              reports[frame.report].results[i].status = status
    /\ Holds(reports[frame.report], "devbox.json has $schema", "PASS")
    /\ \E name \in PyprojectContentNames :
          Holds(reports[frame.report], name, "WARN")

====
